---- MODULE Spec2Model ----
(***************************************************************************)
(* A model of src/fspy_importer.py: the fSpy container parser              *)
(* (FSpyParser), the rotation helpers (create_rotation_matrix,             *)
(* rotation_matrix_to_euler) and the dialog handlers that drive them       *)
(* (PluginDialog.browse_file, PluginDialog.import_camera).                 *)
(*                                                                         *)
(* Representation.                                                         *)
(*   bytes       sequences of integers 0..255                              *)
(*   JSON values tagged records [t |-> tag, v |-> payload]; a dict is the  *)
(*               sequence of its <<key, value>> entries in document order  *)
(*   None        Python's None, which is also what json.loads("null")      *)
(*               returns                                                   *)
(*   lengths     integers in 1/100 mm; inches in 1e-9 inch                 *)
(*   angles      integers in quarter turns (pi/2), where sin and cos are   *)
(*               exact                                                     *)
(***************************************************************************)
EXTENDS Integers, Sequences, FiniteSets, TLC

VARIABLES
    fspy_parser,    \* the FSpyParser under study (PluginDialog.fspy_parser)
    parse_out,      \* what the last parse() call returned and consumed
    transform_data, \* what the last get_camera_transform() call returned
    info_text,      \* PluginDialog.info_text: the camera information shown
    group,          \* PluginDialog.group: the group node of the last import
    camera,         \* PluginDialog.camera: the camera node of the last import
    scene,          \* how many groups, cameras and image planes the scene holds
    controls_enabled, \* whether the up-axis and offset controls are enabled
    disk,           \* the image file save_image wrote last
    last_call,      \* the handler that ran last and how it ended
    offset_controls, \* the up-axis selector and the three offset spin boxes
    edits,          \* how many times the offset controls were changed
    angles,         \* the Euler angles (x, y, z) handed to create_rotation_matrix
    matrix,         \* the matrix create_rotation_matrix returned
    euler,          \* the angles rotation_matrix_to_euler returned for it
    pc              \* which step the driver of the specification is at

parse_vars == <<fspy_parser, parse_out, transform_data>>
euler_vars == <<angles, matrix, euler>>
dialog_vars ==
    <<info_text, group, camera, scene, controls_enabled, disk, last_call,
      offset_controls, edits>>
vars ==
    <<fspy_parser, parse_out, transform_data, info_text, group, camera, scene,
      controls_enabled, disk, last_call, offset_controls, edits, angles, matrix,
      euler, pc>>

\* Every record below lists its fields in the order TLC keeps them: the order
\* in which the names first occur in this module.  A record built in that
\* order is already in normal form, so that no worker reorders a value
\* another worker is reading.

--------------------------------------------------------------------------
(* Bounds of the model.                                                     *)

\* the longest run of NUL padding appended to the JSON text of a state block
MaxPad == 2

\* the most changes made to the offset controls in one run
MaxEdits == 3

--------------------------------------------------------------------------
(* Python values.                                                           *)

None == [t |-> "none", v |-> 0]
JInt(n) == [t |-> "int", v |-> n]
JFloat(name) == [t |-> "float", v |-> name]
JStr(bytes) == [t |-> "str", v |-> bytes]
JList(items) == [t |-> "list", v |-> items]
JDict(entries) == [t |-> "dict", v |-> entries]

IsDict(x) == x.t = "dict"
IsList(x) == x.t = "list"

\* Python truthiness of the values the program tests with `not x` / `if x`
Truthy(x) ==
    CASE x.t = "none" -> FALSE
      [] x.t = "int" -> x.v # 0
      [] x.t = "float" -> TRUE
      [] x.t = "bytes" -> Len(x.v) > 0
      [] x.t = "tuple" -> TRUE
      [] OTHER -> Len(x.v) > 0

HasKey(d, k) == \E i \in 1..Len(d.v) : d.v[i][1] = k

\* dict.get(k, default)
Get(d, k, default) ==
    IF HasKey(d, k)
    THEN d.v[CHOOSE i \in 1..Len(d.v) : d.v[i][1] = k][2]
    ELSE default

Min(a, b) == IF a < b THEN a ELSE b

--------------------------------------------------------------------------
(* Bytes.                                                                   *)

Magic == <<102, 115, 112, 121>>                \* b'fspy'

RECURSIVE Zeros(_)
Zeros(n) == IF n = 0 THEN <<>> ELSE <<0>> \o Zeros(n - 1)

\* struct.pack('<I', n), the layout struct.unpack('<I', ...) reads back
pack_u32(n) ==
    << n % 256, (n \div 256) % 256, (n \div 65536) % 256, (n \div 16777216) % 256 >>

\* struct.unpack('<I', b)[0] for a 4-byte b
unpack_u32(b) == b[1] + 256 * b[2] + 65536 * b[3] + 16777216 * b[4]

\* f.read(n) at offset pos: at most n bytes, fewer at end of file
Read(file, pos, n) ==
    IF pos >= Len(file) \/ n = 0
    THEN <<>>
    ELSE SubSeq(file, pos + 1, Min(pos + n, Len(file)))

\* the block kept as read, padding included
replace_nul_kept(b) == b

\* state_data.replace(b'\x00', b'')
NotNul(byte) == byte # 0
replace_nul(b) == SelectSeq(b, NotNul)

\* bytes.decode('utf-8'): the texts of this model are ASCII, so a byte above
\* 127 is never part of a well-formed multi-byte sequence and decoding raises
utf8_decodes(b) == \A i \in 1..Len(b) : b[i] < 128

--------------------------------------------------------------------------
(* JSON text.  json_dumps writes a value the way a compact JSON writer      *)
(* does; json_loads is json.loads on the texts of the model: leading and    *)
(* trailing whitespace is skipped and the rest must be the text of one of   *)
(* the documents of JsonDocs, anything else raises.                         *)

KeyBytes(k) ==
    CASE k = "cameraParameters" ->
           <<99, 97, 109, 101, 114, 97, 80, 97, 114, 97, 109, 101, 116, 101, 114, 115>>
      [] k = "cameraTransform" ->
           <<99, 97, 109, 101, 114, 97, 84, 114, 97, 110, 115, 102, 111, 114, 109>>
      [] k = "rows" -> <<114, 111, 119, 115>>
      [] k = "imageWidth" -> <<105, 109, 97, 103, 101, 87, 105, 100, 116, 104>>
      [] k = "imageHeight" -> <<105, 109, 97, 103, 101, 72, 101, 105, 103, 104, 116>>
      [] k = "horizontalFieldOfView" ->
           <<104, 111, 114, 105, 122, 111, 110, 116, 97, 108, 70, 105, 101, 108, 100,
             79, 102, 86, 105, 101, 119>>
      [] k = "principalPoint" ->
           <<112, 114, 105, 110, 99, 105, 112, 97, 108, 80, 111, 105, 110, 116>>
      [] k = "x" -> <<120>>
      [] k = "y" -> <<121>>
      [] k = "calibrationSettingsBase" ->
           <<99, 97, 108, 105, 98, 114, 97, 116, 105, 111, 110, 83, 101, 116, 116, 105,
             110, 103, 115, 66, 97, 115, 101>>
      [] k = "referenceDistanceUnit" ->
           <<114, 101, 102, 101, 114, 101, 110, 99, 101, 68, 105, 115, 116, 97, 110, 99,
             101, 85, 110, 105, 116>>

\* the decimal text of the floats of the model
FloatText(name) ==
    CASE name = "0.1" -> <<48, 46, 49>>
      [] name = "0.2" -> <<48, 46, 50>>
      [] name = "pi/2" ->
           <<49, 46, 53, 55, 48, 55, 57, 54, 51, 50, 54, 55, 57, 52, 56, 57, 54, 54>>

RECURSIVE Digits(_)
Digits(n) == IF n < 10 THEN <<48 + n>> ELSE Digits(n \div 10) \o <<48 + (n % 10)>>

IntText(n) == IF n < 0 THEN <<45>> \o Digits(0 - n) ELSE Digits(n)

RECURSIVE json_dumps(_)
RECURSIVE json_items(_)
RECURSIVE json_entries(_)
json_items(items) ==
    IF items = <<>> THEN <<>>
    ELSE IF Len(items) = 1 THEN json_dumps(items[1])
    ELSE json_dumps(items[1]) \o <<44>> \o json_items(Tail(items))
json_entries(entries) ==
    IF entries = <<>> THEN <<>>
    ELSE LET one == <<34>> \o KeyBytes(entries[1][1]) \o <<34, 58>>
                    \o json_dumps(entries[1][2])
         IN IF Len(entries) = 1 THEN one
            ELSE one \o <<44>> \o json_entries(Tail(entries))
json_dumps(x) ==
    CASE x.t = "none" -> <<110, 117, 108, 108>>
      [] x.t = "int" -> IntText(x.v)
      [] x.t = "float" -> FloatText(x.v)
      [] x.t = "str" -> <<34>> \o x.v \o <<34>>
      [] x.t = "list" -> <<91>> \o json_items(x.v) \o <<93>>
      [] x.t = "dict" -> <<123>> \o json_entries(x.v) \o <<125>>

\* the values the documents are built from
ImageWidthValue == JInt(960)
ImageHeightValue == JInt(1920)
FovValue == JFloat("pi/2")
PrincipalPointList == JList(<<JFloat("0.1"), JFloat("0.2")>>)
PrincipalPointDict == JDict(<< <<"x", JFloat("0.1")>>, <<"y", JFloat("0.2")>> >>)
RowsValue ==
    JList(<< JList(<<JInt(0), JInt(-1), JInt(0), JInt(1)>>),
             JList(<<JInt(1), JInt(0), JInt(0), JInt(2)>>),
             JList(<<JInt(0), JInt(0), JInt(1), JInt(3)>>),
             JList(<<JInt(0), JInt(0), JInt(0), JInt(1)>>) >>)
UnitValue == JStr(<<70, 101, 101, 116>>)        \* "Feet"

IntrinsicKeys == <<"imageWidth", "imageHeight", "horizontalFieldOfView", "principalPoint">>

IntrinsicEntry(k, pp) ==
    CASE k = "imageWidth" -> <<k, ImageWidthValue>>
      [] k = "imageHeight" -> <<k, ImageHeightValue>>
      [] k = "horizontalFieldOfView" -> <<k, FovValue>>
      [] k = "principalPoint" -> <<k, pp>>

RECURSIVE IntrinsicEntries(_, _, _)
IntrinsicEntries(keys, S, pp) ==
    IF keys = <<>> THEN <<>>
    ELSE (IF Head(keys) \in S THEN <<IntrinsicEntry(Head(keys), pp)>> ELSE <<>>)
         \o IntrinsicEntries(Tail(keys), S, pp)

StateOf(cameraParameters) == JDict(<< <<"cameraParameters", JDict(cameraParameters)>> >>)

\* cameraParameters holding every subset of the four intrinsics fields, the
\* principal point in both of its shapes
IntrinsicDocs ==
    { StateOf(IntrinsicEntries(IntrinsicKeys, S, pp)) :
        S \in SUBSET {"imageWidth", "imageHeight", "horizontalFieldOfView",
                      "principalPoint"},
        pp \in {PrincipalPointList, PrincipalPointDict} }

\* cameraTransform present without rows, and with rows
TransformDocs ==
    { StateOf(<< <<"cameraTransform", t>> >> \o rest) :
        t \in {JDict(<<>>), JDict(<< <<"rows", RowsValue>> >>)},
        rest \in {<<>>, << <<"imageWidth", ImageWidthValue>> >>} }

\* a state without cameraParameters
UnitDoc ==
    JDict(<< <<"calibrationSettingsBase",
               JDict(<< <<"referenceDistanceUnit", UnitValue>> >>)>> >>)

JsonDocs == IntrinsicDocs \cup TransformDocs \cup {UnitDoc, JDict(<<>>), None}

JsonText == [d \in JsonDocs |-> json_dumps(d)]

\* the texts of the documents, each with its value
JsonTable == { <<json_dumps(d), d>> : d \in JsonDocs }

IsSpace(b) == b \in {32, 9, 10, 13}

RECURSIVE lstrip(_)
lstrip(b) == IF b # <<>> /\ IsSpace(Head(b)) THEN lstrip(Tail(b)) ELSE b

RECURSIVE rstrip(_)
rstrip(b) ==
    IF b # <<>> /\ IsSpace(b[Len(b)]) THEN rstrip(SubSeq(b, 1, Len(b) - 1)) ELSE b

\* json.loads(text): [ok |-> FALSE] stands for the exception it raises
json_loads(text) ==
    LET body == rstrip(lstrip(text))
        hits == { e \in JsonTable : e[1] = body }
    IN IF hits # {}
       THEN [ok |-> TRUE, value |-> (CHOOSE e \in hits : TRUE)[2]]
       ELSE [ok |-> FALSE, value |-> None]


--------------------------------------------------------------------------
(* Matrix3x3 and the rotation helpers.  Angles are whole quarter turns, so  *)
(* that math.cos, math.sin, math.sqrt and math.atan2 are exact.             *)

\* math.cos and math.sin of k quarter turns
cos(k) == CASE k % 4 = 0 -> 1 [] k % 4 = 1 -> 0 [] k % 4 = 2 -> -1 [] k % 4 = 3 -> 0
sin(k) == CASE k % 4 = 0 -> 0 [] k % 4 = 1 -> 1 [] k % 4 = 2 -> 0 [] k % 4 = 3 -> -1

\* math.atan2(y, x) in quarter turns, for the directions along an axis;
\* atan2(0, 0) is 0 and atan2(0, x) for x < 0 is +pi
atan2(y, x) ==
    CASE y = 0 /\ x >= 0 -> 0
      [] y > 0 /\ x = 0 -> 1
      [] y = 0 /\ x < 0 -> 2
      [] y < 0 /\ x = 0 -> -1

\* math.sqrt on the sums of squares of a column of a signed permutation matrix
sqrt(n) == CASE n = 0 -> 0 [] n = 1 -> 1

\* math.degrees of k quarter turns
degrees(k) == 90 * k

\* element [i][j] of a 3x3 or 4x4 nested sequence, indices from 0 as in the source
At(m, i, j) == m[i + 1][j + 1]

\* Matrix3x3.dot_product
dot_product(a, b) == a[1] * b[1] + a[2] * b[2] + a[3] * b[3]

\* Matrix3x3.dot (numpy's dot on 3x3 arrays computes the same product)
dot(a, b) ==
    [i \in 1..3 |->
        [j \in 1..3 |->
            dot_product(<<a[i][1], a[i][2], a[i][3]>>, <<b[1][j], b[2][j], b[3][j]>>)]]

create_rotation_matrix(x, y, z) ==
    LET rot_x == << <<1, 0, 0>>,
                    <<0, cos(x), 0 - sin(x)>>,
                    <<0, sin(x), cos(x)>> >>
        rot_y == << <<cos(y), 0, sin(y)>>,
                    <<0, 1, 0>>,
                    <<0 - sin(y), 0, cos(y)>> >>
        rot_z == << <<cos(z), 0 - sin(z), 0>>,
                    <<sin(z), cos(z), 0>>,
                    <<0, 0, 1>> >>
    IN dot(dot(rot_z, rot_y), rot_x)

\* z read from the first row instead of the first column
rotation_matrix_to_euler_row(m) ==
    LET sy == sqrt(At(m, 0, 0) * At(m, 0, 0) + At(m, 1, 0) * At(m, 1, 0))
    IN IF sy # 0
       THEN << atan2(At(m, 2, 1), At(m, 2, 2)), atan2(0 - At(m, 2, 0), sy),
               atan2(At(m, 0, 1), At(m, 0, 0)) >>
       ELSE << atan2(0 - At(m, 1, 2), At(m, 1, 1)), atan2(0 - At(m, 2, 0), sy), 0 >>

\* rotation_matrix_to_euler; singular (sy < 1e-6) is sy = 0 on these matrices
rotation_matrix_to_euler(m) ==
    LET sy == sqrt(At(m, 0, 0) * At(m, 0, 0) + At(m, 1, 0) * At(m, 1, 0))
    IN IF sy # 0
       THEN << atan2(At(m, 2, 1), At(m, 2, 2)), atan2(0 - At(m, 2, 0), sy),
               atan2(At(m, 1, 0), At(m, 0, 0)) >>
       ELSE << atan2(0 - At(m, 1, 2), At(m, 1, 1)), atan2(0 - At(m, 2, 0), sy), 0 >>

--------------------------------------------------------------------------
(* FSpyParser.                                                              *)

\* FSpyParser.__init__; the filepath field holds the bytes found at the path
FSpyParser(file) ==
    [filepath |-> file, state_data |-> None, image_data |-> None, image_path |-> None]

Bytes(b) == [t |-> "bytes", v |-> b]

\* the places of parse() where the file system can raise: open() and each read
FailPoints == {"open", "magic", "version", "state_size", "image_size", "state", "image"}
NoFail == "none"

\* a comparison of the first three bytes only
MagicOk_Prefix(file_id) == SubSeq(file_id, 1, Min(3, Len(file_id))) = SubSeq(Magic, 1, 3)

\* file_id != b'fspy'
MagicOk(file_id) == file_id = Magic

\* FSpyParser.parse on a parser whose file holds `file`, with the file system
\* raising at `fa` (NoFail: never).  ret is the value returned, state_data and
\* image_data are the fields after the call, consumed is the number of bytes
\* the reads returned.  Every exception ends in the except clause: ret FALSE,
\* the fields as assigned so far.
Parse(self, fa) ==
    LET file == self.filepath
        failed(sd, pos) ==
            [state_data |-> sd, image_data |-> self.image_data, ret |-> FALSE,
             consumed |-> pos]
        file_id == Read(file, 0, 4)
        p1 == Len(file_id)
        version_b == Read(file, p1, 4)
        p2 == p1 + Len(version_b)
        state_size_b == Read(file, p2, 4)
        p3 == p2 + Len(state_size_b)
        image_size_b == Read(file, p3, 4)
        p4 == p3 + Len(image_size_b)
        state_size == unpack_u32(state_size_b)
        image_size == unpack_u32(image_size_b)
        raw == Read(file, p4, state_size)
        p5 == p4 + Len(raw)
        text == replace_nul(raw)
        loaded == json_loads(text)
        image == Read(file, p5, image_size)
        p6 == p5 + Len(image)
    IN  IF fa \in {"open", "magic"} THEN failed(self.state_data, 0)
        ELSE IF ~MagicOk(file_id) THEN failed(self.state_data, p1)
        ELSE IF fa = "version" THEN failed(self.state_data, p1)
        ELSE IF Len(version_b) < 4 THEN failed(self.state_data, p2)
        ELSE IF fa = "state_size" THEN failed(self.state_data, p2)
        ELSE IF Len(state_size_b) < 4 THEN failed(self.state_data, p3)
        ELSE IF fa = "image_size" THEN failed(self.state_data, p3)
        ELSE IF Len(image_size_b) < 4 THEN failed(self.state_data, p4)
        ELSE IF fa = "state" THEN failed(self.state_data, p4)
        ELSE IF ~utf8_decodes(text) \/ ~loaded.ok THEN failed(self.state_data, p5)
        ELSE IF fa = "image" THEN failed(loaded.value, p5)
        ELSE [state_data |-> loaded.value, image_data |-> Bytes(image), ret |-> TRUE,
              consumed |-> p6]

\* the parser after a parse() call that went as `result`
Parsed(self, result) ==
    [self EXCEPT !.state_data = result.state_data, !.image_data = result.image_data]

\* what the caller sees of a parse() call that went as `result`
ParseOut(result, fa) ==
    [ret |-> result.ret, consumed |-> result.consumed, ran |-> TRUE, fail |-> fa]

NotRun == [ret |-> FALSE, consumed |-> 0, ran |-> FALSE, fail |-> NoFail]

Tuple(items) == [t |-> "tuple", v |-> items]

\* the default of transform.get('rows', ...): the 4x4 identity
IdentityRows ==
    JList(<< JList(<<JInt(1), JInt(0), JInt(0), JInt(0)>>),
             JList(<<JInt(0), JInt(1), JInt(0), JInt(0)>>),
             JList(<<JInt(0), JInt(0), JInt(1), JInt(0)>>),
             JList(<<JInt(0), JInt(0), JInt(0), JInt(1)>>) >>)

\* rows[i][j] of a nested list of numbers
Row(rows, i, j) == rows.v[i + 1].v[j + 1].v

\* get_camera_transform raises before reading the transform: state_data has
\* no get() (AttributeError), or `not camera_parameters` holds
NoCameraParameters(state_data) ==
    \/ ~IsDict(state_data)
    \/ ~Truthy(Get(state_data, "cameraParameters", JDict(<<>>)))

\* FSpyParser.get_camera_transform: (position, rotation_matrix), or None
\* where the except clause catches an exception
get_camera_transform(self) ==
    IF NoCameraParameters(self.state_data) THEN None
    ELSE LET camera_parameters == Get(self.state_data, "cameraParameters", JDict(<<>>))
             transform == Get(camera_parameters, "cameraTransform", JDict(<<>>))
             rows == Get(transform, "rows", IdentityRows)
             position == <<Row(rows, 0, 3), Row(rows, 1, 3), Row(rows, 2, 3)>>
             rotation_matrix == [i \in 1..3 |-> [j \in 1..3 |-> Row(rows, i - 1, j - 1)]]
         IN Tuple(<<position, rotation_matrix>>)

--------------------------------------------------------------------------
(* PluginDialog.  Lengths are in 1/100 mm, inches in 1e-6 inch, displayed   *)
(* ratios in 1/1000.  An attribute of a scene node is <<>> until the        *)
(* program sets it (the host's default applies) and <<value>> afterwards.   *)

DefaultImageWidth == 1920
DefaultImageHeightShown == 1920
DefaultImageHeight == 1080
DefaultFocalLength == 35
horiz_aperture_mm == 36
mm_to_inch == 393701                       \* 0.0393701, in 1e-7

\* a length in 1/100 mm times mm_to_inch, in 1e-6 inch
ToInch(mm) == mm * (mm_to_inch \div 1000) + (mm * (mm_to_inch % 1000)) \div 1000

\* float(x) of a JSON number, in 1/1000
FloatMilli(x) ==
    IF x.t = "int" THEN 1000 * x.v
    ELSE CASE x.v = "0.1" -> 100 [] x.v = "0.2" -> 200 [] x.v = "pi/2" -> 1571

\* math.degrees(fov) in 1/100 degree and math.tan(fov / 2) as <<num, den>>
FovDegrees(x) == CASE x.v = "pi/2" -> 9000
TanHalf(x) == CASE x.v = "pi/2" -> <<1, 1>>

\* (horiz_aperture_mm / 2) / math.tan(horizontal_fov / 2), in 1/100 mm
FocalLength(fov) ==
    (((100 * horiz_aperture_mm) \div 2) * TanHalf(fov)[2]) \div TanHalf(fov)[1]

\* f"{a / b:.3f}": the quotient rounded to the nearest 1/1000
Fixed3(a, b) == (2000 * a + b) \div (2 * b)

NoInfo == [shown |-> FALSE]

\* PluginDialog.update_camera_info: the text set on info_text (without its
\* file name line)
update_camera_info(self, params, transform) ==
    LET image_width == Get(params, "imageWidth", JInt(DefaultImageWidth)).v
        image_height == Get(params, "imageHeight", JInt(DefaultImageHeightShown)).v
        horizontal_fov == Get(params, "horizontalFieldOfView", None)
        principal_point ==
            Get(params, "principalPoint",
                JDict(<< <<"x", JInt(0)>>, <<"y", JInt(0)>> >>))
        unit == Get(Get(self.state_data, "calibrationSettingsBase", JDict(<<>>)),
                    "referenceDistanceUnit", JStr(<<77, 101, 116, 101, 114, 115>>))
        rot_euler == rotation_matrix_to_euler(transform.v[2])
    IN [image_size |-> <<image_width, image_height>>,
        position |-> IF Truthy(transform) THEN <<transform.v[1]>> ELSE <<>>,
        shown |-> TRUE,
        horizontal_fov |->
            IF horizontal_fov # None THEN <<FovDegrees(horizontal_fov)>> ELSE <<>>,
        principal_point |->
            IF IsDict(principal_point)
            THEN << <<FloatMilli(Get(principal_point, "x", JInt(0))),
                      FloatMilli(Get(principal_point, "y", JInt(0)))>> >>
            ELSE <<>>,
        unit |-> unit.v,
        aspect_ratio |-> Fixed3(image_width, image_height),
        rotation |->
            IF Truthy(transform)
            THEN << <<degrees(rot_euler[1]), degrees(rot_euler[2]),
                      degrees(rot_euler[3])>> >>
            ELSE <<>>,
        focal_length |->
            IF horizontal_fov # None THEN FocalLength(horizontal_fov)
            ELSE 100 * DefaultFocalLength]

NoNode == 0

\* self.group / self.camera before the first import
NoGroup == [id |-> NoNode, rotate |-> <<>>]
NoCamera ==
    [id |-> NoNode, rotate |-> <<>>, parent |-> NoNode, translate |-> <<>>,
     horizontalFilmAperture |-> <<>>, verticalFilmAperture |-> <<>>,
     horizontalFilmOffset |-> <<>>, verticalFilmOffset |-> <<>>,
     filmFit |-> <<>>, tx_locked |-> FALSE, focalLength |-> <<>>,
     imagePlane |-> <<>>]

\* cmds.group(empty=True, ...) and cmds.camera(...) parented to it
NewGroup(id) == [NoGroup EXCEPT !.id = id]
NewCamera(id, parent) == [NoCamera EXCEPT !.id = id, !.parent = parent]

\* import_camera, lines 470-483: translate and rotate from the transform
WithTransform(cam, transform) ==
    IF ~Truthy(transform) THEN cam
    ELSE LET rot_euler == rotation_matrix_to_euler(transform.v[2])
         IN [cam EXCEPT
                !.translate = <<transform.v[1]>>,
                !.rotate = << <<degrees(rot_euler[1]), degrees(rot_euler[2]),
                                degrees(rot_euler[3])>> >>]

\* import_camera, lines 486-525: film back, film offset, film fit, lock and
\* focal length from cameraParameters
WithIntrinsics(cam, params) ==
    IF ~Truthy(params) THEN cam
    ELSE LET image_width == Get(params, "imageWidth", JInt(DefaultImageWidth)).v
             image_height == Get(params, "imageHeight", JInt(DefaultImageHeight)).v
             horiz_mm == 100 * horiz_aperture_mm
             \* horiz_aperture_mm / (image_width / image_height)
             vert_mm == (horiz_mm * image_height) \div image_width
             principal_point ==
                 Get(params, "principalPoint", JList(<<JInt(0), JInt(0)>>))
             offsets == IsList(principal_point) /\ Len(principal_point.v) = 2
             x_offset_mm == (FloatMilli(principal_point.v[1]) * horiz_mm) \div 1000
             y_offset_mm == (FloatMilli(principal_point.v[2]) * vert_mm) \div 1000
             horizontal_fov == Get(params, "horizontalFieldOfView", None)
         IN [cam EXCEPT
                !.horizontalFilmAperture = <<ToInch(horiz_mm)>>,
                !.verticalFilmAperture = <<ToInch(vert_mm)>>,
                !.horizontalFilmOffset = IF offsets THEN <<ToInch(x_offset_mm)>> ELSE @,
                !.verticalFilmOffset = IF offsets THEN <<ToInch(y_offset_mm)>> ELSE @,
                !.filmFit = <<1>>,
                !.tx_locked = TRUE,
                !.focalLength =
                    IF horizontal_fov # None THEN <<FocalLength(horizontal_fov)>> ELSE @]

\* the paths the save dialog can return, and the project root
SavePaths == {"/project/images/a.jpg"}

\* PluginDialog.get_relative_path
get_relative_path(filepath) ==
    IF filepath = "/project/images/a.jpg" THEN "images/a.jpg" ELSE filepath

Path(p) == [t |-> "path", v |-> p]

\* how a save_image() call can go: the user picks a path and the write
\* succeeds, the user cancels the dialog, or the write raises
SaveOutcomes ==
    { [path |-> p, kind |-> "saved"] : p \in SavePaths }
    \cup { [path |-> "", kind |-> k] : k \in {"cancelled", "write_failed"} }

\* save_image returning the default path whatever the dialog and the write did
save_image_any(self, outcome) ==
    IF ~Truthy(self.image_data) THEN None ELSE Path("/project/images/a.jpg")

\* FSpyParser.save_image: the path returned, or None
save_image(self, outcome) ==
    IF ~Truthy(self.image_data) THEN None
    ELSE IF outcome.kind = "saved" THEN Path(outcome.path)
    ELSE None

Call(handler, outcome) == [outcome |-> outcome, handler |-> handler]

--------------------------------------------------------------------------
(* Container files.                                                         *)

\* a container as section 6 of the format lays it out
Container(version, text, pad, image) ==
    Magic \o pack_u32(version) \o pack_u32(Len(text) + pad) \o pack_u32(Len(image))
          \o text \o Zeros(pad) \o image

Versions == {1, 2}
Images == {<<>>, <<137, 0, 80>>}
Pads == 0..MaxPad

\* short state texts with the value each holds: {}, null,
\* {"cameraParameters":{}} and {} followed by a newline
ShortStates ==
    { <<JsonText[d], d>> : d \in {JDict(<<>>), None, StateOf(<<>>)} }
    \cup { <<JsonText[JDict(<<>>)] \o <<10>>, JDict(<<>>)>> }

ShortTexts == { s[1] : s \in ShortStates }

ShortContainers ==
    { Container(v, text, pad, image) :
        v \in Versions, text \in ShortTexts, pad \in Pads, image \in Images }

Prefixes(f) == { SubSeq(f, 1, n) : n \in 0..Len(f) }

\* the same file under another tag: b'fspx'
BadMagic(f) == <<102, 115, 112, 120>> \o SubSeq(f, 5, Len(f))

\* the files the parser is run on: the short containers, each cut at every
\* length, and each under a wrong tag
\* a container for every document of the model
DocContainers ==
    { Container(1, JsonText[d], 0, image) : d \in JsonDocs, image \in Images }

ParseFiles ==
    UNION { Prefixes(f) : f \in ShortContainers }
    \cup { BadMagic(f) : f \in ShortContainers }
    \cup DocContainers

--------------------------------------------------------------------------
(* The parser on its own: a parser is constructed on a file, parse() is     *)
(* called once and, as in browse_file, get_camera_transform() is called     *)
(* when parse() returned True.                                              *)

NoParser == None
NoAngles == <<0, 0, 0>>
NoMatrix == << <<0, 0, 0>>, <<0, 0, 0>>, <<0, 0, 0>> >>

EulerIdle == angles = NoAngles /\ matrix = NoMatrix /\ euler = NoAngles
ParseIdle == fspy_parser = NoParser /\ parse_out = NotRun /\ transform_data = None

NoCall == Call("none", "none")
NoScene == [groups |-> 0, cameras |-> 0, image_planes |-> 0]

\* setup_ui: the selector shows its first item, the spin boxes show 0
InitialControls == [up_axis |-> "X", offset_x |-> 0, offset_y |-> 0, offset_z |-> 0]

DialogIdle ==
    /\ info_text = NoInfo
    /\ group = NoGroup
    /\ camera = NoCamera
    /\ scene = NoScene
    /\ controls_enabled = FALSE
    /\ disk = None
    /\ last_call = NoCall
    /\ offset_controls = InitialControls
    /\ edits = 0

InitParse ==
    /\ fspy_parser \in { FSpyParser(f) : f \in ParseFiles }
    /\ parse_out = NotRun
    /\ transform_data = None
    /\ EulerIdle
    /\ DialogIdle
    /\ pc = "constructed"

CallParse(fa) ==
    /\ pc = "constructed"
    /\ LET result == Parse(fspy_parser, fa)
       IN /\ fspy_parser' = Parsed(fspy_parser, result)
          /\ parse_out' = ParseOut(result, fa)
    /\ pc' = "parsed"
    /\ UNCHANGED <<transform_data, euler_vars, dialog_vars>>

CallGetCameraTransform ==
    /\ pc = "parsed"
    /\ parse_out.ret
    /\ transform_data' = get_camera_transform(fspy_parser)
    /\ pc' = "transformed"
    /\ UNCHANGED <<fspy_parser, parse_out, euler_vars, dialog_vars>>

NextParse ==
    \/ \E fa \in FailPoints \cup {NoFail} : CallParse(fa)
    \/ CallGetCameraTransform

SpecParse == InitParse /\ [][NextParse]_vars

--------------------------------------------------------------------------
(* The rotation helpers on their own: a matrix is built from three angles   *)
(* of [-pi, pi], then decomposed.                                           *)

QuarterTurns == -2..2

InitEuler ==
    /\ angles \in QuarterTurns \X QuarterTurns \X QuarterTurns
    /\ matrix = NoMatrix
    /\ euler = NoAngles
    /\ ParseIdle
    /\ DialogIdle
    /\ pc = "angles"

CallCreateRotationMatrix ==
    /\ pc = "angles"
    /\ matrix' = create_rotation_matrix(angles[1], angles[2], angles[3])
    /\ pc' = "matrix"
    /\ UNCHANGED <<angles, euler, parse_vars, dialog_vars>>

CallRotationMatrixToEuler ==
    /\ pc = "matrix"
    /\ euler' = rotation_matrix_to_euler(matrix)
    /\ pc' = "euler"
    /\ UNCHANGED <<angles, matrix, parse_vars, dialog_vars>>

NextEuler == CallCreateRotationMatrix \/ CallRotationMatrixToEuler

SpecEuler == InitEuler /\ [][NextEuler]_vars

--------------------------------------------------------------------------
(* The dialog: PluginDialog.__init__, then any sequence of browse_file and  *)
(* import_camera.                                                           *)

\* the most imports of one run
MaxImports == 2

\* the documents the dialog is run on: no state, an empty state, a state
\* without cameraParameters, empty cameraParameters, imageWidth alone, the
\* four intrinsics fields together with the principal point in either shape,
\* and a cameraTransform with rows
WidthDoc == StateOf(<< <<"imageWidth", ImageWidthValue>> >>)
FullDoc(pp) ==
    StateOf(IntrinsicEntries(IntrinsicKeys,
                             {"imageWidth", "imageHeight", "horizontalFieldOfView",
                              "principalPoint"}, pp))
RowsDoc ==
    StateOf(<< <<"cameraTransform", JDict(<< <<"rows", RowsValue>> >>)>>,
               <<"imageWidth", ImageWidthValue>> >>)

DialogDocs ==
    { None, JDict(<<>>), UnitDoc, StateOf(<<>>), WidthDoc,
      FullDoc(PrincipalPointList), FullDoc(PrincipalPointDict), RowsDoc }

\* every document with an image, three of them without, and a file under a
\* wrong tag
DialogFiles ==
    { Container(1, JsonText[d], 0, <<137, 0, 80>>) : d \in DialogDocs }
    \cup { Container(1, JsonText[d], 0, <<>>) :
              d \in {UnitDoc, StateOf(<<>>), FullDoc(PrincipalPointList)} }
    \cup { BadMagic(Container(1, JsonText[UnitDoc], 0, <<>>)) }

\* the failures of the file system the dialog is run under
DialogFails == {NoFail, "image"}

Init ==
    /\ fspy_parser = NoParser
    /\ parse_out = NotRun
    /\ transform_data = None
    /\ DialogIdle
    /\ EulerIdle
    /\ pc = "dialog"

\* what browse_file computes from the file picked: the parser after parse(),
\* what parse() returned, whether state_data.get raised AttributeError (a
\* state that is no dict) and the camera information to show, if any
BrowseResult(file, fa) ==
    LET result == Parse(FSpyParser(file), fa)
        parser == Parsed(FSpyParser(file), result)
        raises == result.ret /\ ~IsDict(parser.state_data)
        params == Get(parser.state_data, "cameraParameters", JDict(<<>>))
        shows == result.ret /\ ~raises /\ Truthy(params)
    IN [outcome |->
            IF ~result.ret THEN "parse_failed"
            ELSE IF raises THEN "raised"
            ELSE IF shows THEN "shown" ELSE "loaded",
        parser |-> parser,
        out |-> ParseOut(result, fa),
        info |->
            IF shows
            THEN update_camera_info(parser, params, get_camera_transform(parser))
            ELSE NoInfo]

\* PluginDialog.browse_file with the file dialog returning the path of `file`
browse_file(file, fa) ==
    \E r \in {BrowseResult(file, fa)} :
        /\ pc = "dialog"
        /\ fspy_parser' = r.parser
        /\ parse_out' = r.out
        /\ info_text' = IF r.outcome = "shown" THEN r.info ELSE info_text
        /\ last_call' = Call("browse_file", r.outcome)
        /\ UNCHANGED <<transform_data, group, camera, scene, controls_enabled, disk,
                       offset_controls, edits, euler_vars, pc>>

\* PluginDialog.browse_file with the file dialog cancelled: file_path is
\* empty and nothing is replaced
browse_cancelled ==
    /\ pc = "dialog"
    /\ last_call' = Call("browse_file", "cancelled")
    /\ UNCHANGED <<parse_vars, info_text, group, camera, scene, controls_enabled, disk,
                   offset_controls, edits, euler_vars, pc>>

\* what import_camera computes once it goes ahead: the camera node with its
\* attributes set and the camera information to show, if any
ImportResult(self, id) ==
    LET params == Get(self.state_data, "cameraParameters", JDict(<<>>))
        transform == get_camera_transform(self)
    IN [camera |-> WithIntrinsics(WithTransform(NewCamera(id, id), transform), params),
        shows |-> Truthy(params),
        info |->
            IF Truthy(params) THEN update_camera_info(self, params, transform)
            ELSE NoInfo]

\* PluginDialog.import_camera with save_image going as `save` and the user
\* answering the "Continue Without Image" question with `answer`
import_camera(save, answer) ==
    LET no_file == fspy_parser = NoParser \/ ~Truthy(fspy_parser.state_data)
        has_image == Truthy(fspy_parser.image_data)
        image_path == save_image(fspy_parser, save)
        saved == has_image /\ image_path # None
        declined == has_image /\ image_path = None /\ answer # "Yes"
        id == scene.groups + 1
        \* `if image_path:` reads a local that was never bound when the parser
        \* holds no image: UnboundLocalError, logged and raised again
        unbound == ~has_image
    IN  /\ pc = "dialog"
        /\ scene.groups < MaxImports
        /\ IF no_file
           THEN /\ last_call' = Call("import_camera", "no_file")
                /\ UNCHANGED <<fspy_parser, info_text, group, camera, scene,
                               controls_enabled, disk>>
           ELSE IF declined
           THEN /\ last_call' = Call("import_camera", "declined")
                /\ UNCHANGED <<fspy_parser, info_text, group, camera, scene,
                               controls_enabled, disk>>
           ELSE \E r \in {ImportResult(fspy_parser, id)} :
                /\ fspy_parser' =
                       IF saved THEN [fspy_parser EXCEPT !.image_path = image_path]
                       ELSE fspy_parser
                /\ disk' =
                       IF saved
                       THEN [t |-> "file", v |-> <<image_path.v, fspy_parser.image_data.v>>]
                       ELSE disk
                /\ group' = NewGroup(id)
                /\ info_text' = IF r.shows THEN r.info ELSE info_text
                /\ camera' =
                       IF saved
                       THEN [r.camera EXCEPT
                                !.imagePlane = <<get_relative_path(image_path.v)>>]
                       ELSE r.camera
                /\ scene' =
                       [groups |-> id, cameras |-> scene.cameras + 1,
                        image_planes |->
                            IF saved THEN scene.image_planes + 1 ELSE scene.image_planes]
                /\ controls_enabled' = IF unbound THEN controls_enabled ELSE TRUE
                /\ last_call' =
                       Call("import_camera", IF unbound THEN "raised" ELSE "done")
        /\ UNCHANGED <<parse_out, transform_data, offset_controls, edits, euler_vars, pc>>

Next ==
    \/ \E file \in DialogFiles, fa \in DialogFails : browse_file(file, fa)
    \/ browse_cancelled
    \/ \E save \in SaveOutcomes, answer \in {"Yes", "No"} : import_camera(save, answer)

Spec == Init /\ [][Next]_vars

--------------------------------------------------------------------------
(* The offset controls: the up-axis selector, the three offset spin boxes   *)
(* and their -/+ buttons, each connected to apply_up_axis, next to          *)
(* browse_file and import_camera on two files.                              *)

\* the items of the up-axis selector
UpAxes == {"X", "Y", "Z", "-X", "-Y", "-Z"}

\* the spin boxes, the values typed into them and the step of the buttons
OffsetBoxes == {"offset_x", "offset_y", "offset_z"}
OffsetValues == {-360, 45, 360}
OffsetSteps == {-90, 90}

\* QDoubleSpinBox.setValue under setRange(-360, 360)
setValue(value) == IF value < -360 THEN -360 ELSE IF value > 360 THEN 360 ELSE value

\* PluginDialog.apply_up_axis: the group node with its rotation set
apply_up_axis(self_group, controls) ==
    LET up_axis == controls.up_axis
        offset_value == 90
        offset_x == controls.offset_x
        offset_y == controls.offset_y
        offset_z == controls.offset_z
        rotate ==
            CASE up_axis = "X" -> <<offset_value + offset_x, offset_y, offset_z>>
              [] up_axis = "Y" -> <<offset_x, offset_value + offset_y, offset_z>>
              [] up_axis = "Z" -> <<offset_x, offset_y, offset_value + offset_z>>
              [] up_axis = "-X" -> <<(-offset_value) + offset_x, offset_y, offset_z>>
              [] up_axis = "-Y" -> <<offset_x, (-offset_value) + offset_y, offset_z>>
              [] up_axis = "-Z" -> <<offset_x, offset_y, (-offset_value) + offset_z>>
    IN IF self_group.id = NoNode THEN self_group
       ELSE [self_group EXCEPT !.rotate = <<rotate>>]

\* a change of the controls to `controls`: the signal of the changed widget
\* calls apply_up_axis
ControlsChanged(handler, controls) ==
    /\ pc = "dialog"
    /\ controls_enabled
    /\ edits < MaxEdits
    /\ controls # offset_controls
    /\ offset_controls' = controls
    /\ edits' = edits + 1
    /\ group' = apply_up_axis(group, controls)
    /\ last_call' = Call(handler, "done")
    /\ UNCHANGED <<parse_vars, info_text, camera, scene, controls_enabled, disk,
                   euler_vars, pc>>

\* the user picks another item of the up-axis selector (currentIndexChanged)
set_up_axis(axis) ==
    ControlsChanged("set_up_axis", [offset_controls EXCEPT !.up_axis = axis])

\* the user types a value into a spin box (valueChanged)
set_offset(box, value) ==
    ControlsChanged("set_offset", [offset_controls EXCEPT ![box] = setValue(value)])

\* the user clicks the - or + button of a spin box: setValue(value() -/+ 90)
click_offset(box, step) ==
    ControlsChanged("click_offset", [offset_controls EXCEPT ![box] = setValue(@ + step)])

\* the files the offset controls are run next to: one with an image, one
\* without
AxisFiles ==
    { Container(1, JsonText[RowsDoc], 0, <<137, 0, 80>>),
      Container(1, JsonText[UnitDoc], 0, <<>>) }

NextAxis ==
    \/ \E file \in AxisFiles : browse_file(file, NoFail)
    \/ \E save \in SaveOutcomes, answer \in {"Yes", "No"} : import_camera(save, answer)
    \/ \E axis \in UpAxes : set_up_axis(axis)
    \/ \E box \in OffsetBoxes, value \in OffsetValues : set_offset(box, value)
    \/ \E box \in OffsetBoxes, step \in OffsetSteps : click_offset(box, step)

SpecAxis == Init /\ [][NextAxis]_vars

--------------------------------------------------------------------------
(* Claims about parse(), checked under SpecParse.                           *)

TheFile == fspy_parser.filepath
First4(file) == SubSeq(file, 1, Min(4, Len(file)))
HeaderStateSize(file) == unpack_u32(SubSeq(file, 9, 12))
HeaderImageSize(file) == unpack_u32(SubSeq(file, 13, 16))
ParseFailed == parse_out.ran /\ ~parse_out.ret
ParseSucceeded == parse_out.ran /\ parse_out.ret

\* C1: parse is all-or-nothing: whenever it returns False, at whichever point
\* of the read sequence it failed, state_data and image_data are both None.
C1_AllOrNothing ==
    ParseFailed => fspy_parser.state_data = None /\ fspy_parser.image_data = None

\* C2: whenever parse returns True, image_data has exactly imageSize bytes and
\* the state block read had exactly stateSize bytes.
C2_ExactSizes ==
    ParseSucceeded =>
        /\ Len(fspy_parser.image_data.v) = HeaderImageSize(TheFile)
        /\ parse_out.consumed =
               16 + HeaderStateSize(TheFile) + HeaderImageSize(TheFile)

\* C3: on a file whose first 4 bytes are not b'fspy' (shorter files included)
\* parse returns False having consumed no byte beyond the 4-byte magic read,
\* and sets neither field.
C3_BadMagicStops ==
    (parse_out.ran /\ First4(TheFile) # Magic) =>
        /\ ~parse_out.ret
        /\ parse_out.consumed <= 4
        /\ parse_out.consumed <= Len(TheFile)
        /\ fspy_parser.state_data = None
        /\ fspy_parser.image_data = None

\* a full-length container under the tag b'fspx', read without an I/O error:
\* the 4 bytes of the tag were consumed and nothing after them
C3_Witness ==
    /\ ParseFailed
    /\ parse_out.fail = NoFail
    /\ \E f \in ShortContainers : TheFile = BadMagic(f) /\ Len(f) > 20
    /\ parse_out.consumed = 4

\* what parse() leaves behind of a file
Retained(self) == <<self.state_data, self.image_data>>

\* a container cut into its parts, the state block without its NUL bytes
Unpadded(file) ==
    << SubSeq(file, 1, 4), SubSeq(file, 5, 8),
       replace_nul(SubSeq(file, 17, 16 + HeaderStateSize(file))),
       SubSeq(file, 17 + HeaderStateSize(file), Len(file)) >>

--------------------------------------------------------------------------
(* Claims about the rotation helpers, checked under SpecEuler.              *)

GimbalLock == angles[2] \in {-1, 1}
Recomposed == create_rotation_matrix(euler[1], euler[2], euler[3])
SameAngle(a, b) == (a - b) % 4 = 0

\* C8 as stated: the decomposition reproduces (x, y, z) for every triple of
\* [-pi, pi] except at pitch = +-pi/2, where the recomposed matrix matches.
\* Angles are compared up to a full turn, so that -pi and +pi count as equal.
C8_RoundTrip ==
    pc = "euler" =>
        IF GimbalLock
        THEN Recomposed = matrix
        ELSE /\ SameAngle(euler[1], angles[1])
             /\ SameAngle(euler[2], angles[2])
             /\ SameAngle(euler[3], angles[3])

\* C8 amended: the recomposed matrix always matches; the angles are
\* reproduced, up to a full turn, when the pitch is strictly inside
\* (-pi/2, pi/2).
C8_RoundTripMatrix ==
    pc = "euler" =>
        /\ Recomposed = matrix
        /\ cos(angles[2]) > 0 =>
               /\ SameAngle(euler[1], angles[1])
               /\ SameAngle(euler[2], angles[2])
               /\ SameAngle(euler[3], angles[3])

\* a triple away from gimbal lock, reproduced angle by angle
C8_Witness ==
    /\ pc = "euler"
    /\ angles = <<1, 0, -1>>
    /\ euler = <<1, 0, -1>>
    /\ matrix # NoMatrix

--------------------------------------------------------------------------
(* Claims about get_camera_transform(), checked under SpecParse.            *)

Identity3 == << <<1, 0, 0>>, <<0, 1, 0>>, <<0, 0, 1>> >>
HasCameraParameters ==
    IsDict(fspy_parser.state_data) /\ HasKey(fspy_parser.state_data, "cameraParameters")
TheCameraParameters == Get(fspy_parser.state_data, "cameraParameters", JDict(<<>>))
TheCameraTransform == Get(TheCameraParameters, "cameraTransform", JDict(<<>>))
HasRows == HasKey(TheCameraParameters, "cameraTransform") /\ HasKey(TheCameraTransform, "rows")
TheRows == Get(TheCameraTransform, "rows", IdentityRows)

\* C4: get_camera_transform returns a (position, rotation) pair for every
\* state that holds a cameraParameters key; it returns None only when the key
\* is absent.
C4_FailsOnlyIfAbsent ==
    (pc = "transformed" /\ HasCameraParameters) => transform_data # None

\* C5: for a state with cameraParameters (empty or not) that lacks
\* cameraTransform.rows the result is position (0,0,0) and the identity
\* rotation; with rows present the position is column 3 of rows 0..2 and the
\* rotation the upper-left 3x3 of rows.
C5_Transform ==
    (pc = "transformed" /\ HasCameraParameters) =>
        IF HasRows
        THEN transform_data =
                 Tuple(<< <<Row(TheRows, 0, 3), Row(TheRows, 1, 3), Row(TheRows, 2, 3)>>,
                          [i \in 1..3 |-> [j \in 1..3 |-> Row(TheRows, i - 1, j - 1)]] >>)
        ELSE transform_data = Tuple(<< <<0, 0, 0>>, Identity3 >>)

--------------------------------------------------------------------------
(* Claims about import_camera(), checked under Spec.  They are stated on    *)
(* the state right after an import_camera call that created a camera: the   *)
(* parser is then the one the camera was imported from.                     *)

Imported ==
    /\ last_call.handler = "import_camera"
    /\ last_call.outcome \in {"done", "raised"}
ImportedWithImage == Imported /\ Truthy(fspy_parser.image_data)
ImportedParams == Get(fspy_parser.state_data, "cameraParameters", JDict(<<>>))
ImportedHasParams == HasKey(fspy_parser.state_data, "cameraParameters")

\* the film back a cameraParameters mapping stands for, missing sizes read as
\* 1920 x 1080, in 1/100 mm
HorizontalApertureOf(params) == 100 * horiz_aperture_mm
VerticalApertureOf(params) ==
    (100 * horiz_aperture_mm * Get(params, "imageHeight", JInt(DefaultImageHeight)).v)
        \div Get(params, "imageWidth", JInt(DefaultImageWidth)).v

\* the principal point of a mapping, in either shape, in 1/1000
PrincipalPointOf(params) ==
    LET pp == Get(params, "principalPoint", JList(<<JInt(0), JInt(0)>>))
    IN IF IsDict(pp)
       THEN <<FloatMilli(Get(pp, "x", JInt(0))), FloatMilli(Get(pp, "y", JInt(0)))>>
       ELSE <<FloatMilli(pp.v[1]), FloatMilli(pp.v[2])>>

\* the film offsets a mapping stands for, in 1e-6 inch
HorizontalOffsetOf(params) ==
    ToInch((PrincipalPointOf(params)[1] * HorizontalApertureOf(params)) \div 1000)
VerticalOffsetOf(params) ==
    ToInch((PrincipalPointOf(params)[2] * VerticalApertureOf(params)) \div 1000)

\* the focal length of a camera node in 1/100 mm; a node whose focalLength
\* was never set keeps the default of 35 mm
FocalLengthOf(cam) ==
    IF cam.focalLength = <<>> THEN 100 * DefaultFocalLength ELSE cam.focalLength[1]

\* C6: a principalPoint given as a pair [px, py] and one given as a mapping
\* {x: px, y: py} lead import_camera to the same film offsets,
\* px * horizontal aperture and py * vertical aperture in inches.
C6_BothShapes ==
    (ImportedWithImage /\ ImportedHasParams /\ HasKey(ImportedParams, "principalPoint")) =>
        /\ camera.horizontalFilmOffset = <<HorizontalOffsetOf(ImportedParams)>>
        /\ camera.verticalFilmOffset = <<VerticalOffsetOf(ImportedParams)>>

\* C7: for every cameraParameters mapping, the empty one included, import
\* applies the film back computed with 1920x1080 for missing sizes and the
\* 36 mm aperture, a focal length of 35 mm when horizontalFieldOfView is
\* missing, zero offsets when principalPoint is missing, and does not raise.
C7_Defaults ==
    (ImportedWithImage /\ ImportedHasParams) =>
        /\ last_call.outcome = "done"
        /\ camera.horizontalFilmAperture = <<ToInch(HorizontalApertureOf(ImportedParams))>>
        /\ camera.verticalFilmAperture = <<ToInch(VerticalApertureOf(ImportedParams))>>
        /\ ~HasKey(ImportedParams, "horizontalFieldOfView") =>
               FocalLengthOf(camera) = 100 * DefaultFocalLength
        /\ ~HasKey(ImportedParams, "principalPoint") =>
               /\ camera.horizontalFilmOffset = <<0>>
               /\ camera.verticalFilmOffset = <<0>>

\* C10: for a mapping without imageHeight the aspect ratio update_camera_info
\* shows and the one import_camera uses for the vertical film aperture come
\* from the same default height, 1080.
C10_OneDefaultHeight ==
    (ImportedWithImage /\ Truthy(ImportedParams) /\ ~HasKey(ImportedParams, "imageHeight")) =>
        /\ info_text.shown
        /\ info_text.image_size[2] = DefaultImageHeight
        /\ info_text.aspect_ratio = Fixed3(info_text.image_size[1], DefaultImageHeight)
        /\ camera.verticalFilmAperture =
               <<ToInch((100 * horiz_aperture_mm * info_text.image_size[2])
                            \div info_text.image_size[1])>>

--------------------------------------------------------------------------
(* Claims about the image of an import, checked under Spec.                 *)

\* the last handler was import_camera on a successfully parsed container
\* whose image block is empty and whose state is a non-empty mapping
ImportCalledWithoutImage ==
    /\ last_call.handler = "import_camera"
    /\ fspy_parser # NoParser
    /\ parse_out.ret
    /\ HeaderImageSize(fspy_parser.filepath) = 0
    /\ ~Truthy(fspy_parser.image_data)
    /\ IsDict(fspy_parser.state_data)
    /\ Truthy(fspy_parser.state_data)

\* C11: on a successfully parsed container with an empty image block and a
\* non-empty state, import_camera runs to completion without raising: group
\* and camera exist, transform and intrinsics are applied, there is no image
\* plane and the offset controls are enabled.
C11_NoImageCompletes ==
    ImportCalledWithoutImage =>
        /\ last_call.outcome = "done"
        /\ group.id # NoNode
        /\ camera = ImportResult(fspy_parser, group.id).camera
        /\ camera.imagePlane = <<>>
        /\ controls_enabled

\* the parser holds a state and an image, so that import_camera calls
\* save_image
HoldsImage ==
    /\ fspy_parser # NoParser
    /\ Truthy(fspy_parser.state_data)
    /\ Truthy(fspy_parser.image_data)

\* an import_camera step in which save_image returned no path (the dialog
\* was cancelled or the write failed) and the user gave `answer`
ImportWithoutPath(answer) ==
    /\ HoldsImage
    /\ \E save \in SaveOutcomes : save.kind # "saved" /\ import_camera(save, answer)

\* C12: the image is saved before any scene object is created and the caller
\* decides: when save_image returns no path and the answer is not Yes,
\* import_camera creates no group, camera or image plane and leaves the
\* offset controls alone; when the answer is Yes the camera is created
\* without an image plane.
C12_CallerDecides ==
    [][ /\ ImportWithoutPath("No") =>
            UNCHANGED <<group, camera, scene, controls_enabled, disk>>
        /\ ImportWithoutPath("Yes") =>
            /\ group'.id = scene.groups + 1
            /\ camera'.id = group'.id
            /\ camera'.imagePlane = <<>>
            /\ scene' = [groups |-> scene.groups + 1, cameras |-> scene.cameras + 1,
                         image_planes |-> scene.image_planes]
            /\ disk' = disk ]_vars

\* the user declined an import after an earlier one went ahead without an
\* image plane
C12_Witness ==
    /\ last_call = Call("import_camera", "declined")
    /\ HoldsImage
    /\ controls_enabled
    /\ camera.id # NoNode
    /\ camera.imagePlane = <<>>
    /\ scene = [groups |-> 1, cameras |-> 1, image_planes |-> 0]
    /\ disk = None

--------------------------------------------------------------------------
(* Claims about which file an import acts on, checked under Spec.           *)

\* the file selected last in browse_file failed to parse
LastParseFailed == parse_out.ran /\ ~parse_out.ret

\* some import_camera call
ImportCalled ==
    \E save \in SaveOutcomes, answer \in {"Yes", "No"} : import_camera(save, answer)

\* C13: import_camera acts on the most recently browsed file only: when the
\* file selected last failed to parse, import_camera changes nothing in the
\* scene and reports that no valid file is loaded, whatever was browsed
\* before.
C13_LastFileOnly ==
    [][ (LastParseFailed /\ ImportCalled) =>
            /\ last_call'.outcome = "no_file"
            /\ UNCHANGED <<group, camera, scene, controls_enabled, disk, info_text>>
      ]_vars

--------------------------------------------------------------------------
(* Claims about the up axis and the offsets, checked under SpecAxis.        *)

\* the rotation of a group node; a node whose rotation was never set is
\* unrotated
RotationOf(node) == IF node.rotate = <<>> THEN <<0, 0, 0>> ELSE node.rotate[1]

\* +90 on the selected axis for X/Y/Z, -90 for -X/-Y/-Z
UpAxisTerm(up_axis) ==
    CASE up_axis = "X" -> <<90, 0, 0>>
      [] up_axis = "Y" -> <<0, 90, 0>>
      [] up_axis = "Z" -> <<0, 0, 90>>
      [] up_axis = "-X" -> <<-90, 0, 0>>
      [] up_axis = "-Y" -> <<0, -90, 0>>
      [] up_axis = "-Z" -> <<0, 0, -90>>

\* the rotation the controls stand for
RotationShown(controls) ==
    <<controls.offset_x + UpAxisTerm(controls.up_axis)[1],
      controls.offset_y + UpAxisTerm(controls.up_axis)[2],
      controls.offset_z + UpAxisTerm(controls.up_axis)[3]>>

\* C14: after any sequence of imports and changes of the up-axis selector
\* and the offset spin boxes, whenever a camera group exists its rotation is
\* (offset_x, offset_y, offset_z) with +90 or -90 added once on the selected
\* axis, and while no group exists nothing was rotated.
C14_GroupRotation ==
    /\ group.id # NoNode => RotationOf(group) = RotationShown(offset_controls)
    /\ group.id = NoNode => group = NoGroup

====
